---- MODULE Spec2Model ----
(***************************************************************************)
(* A model of PINT's solar-system Shapiro delay component                  *)
(* (pint/models/solar_system_shapiro.py) and of the PINTk main window      *)
(* (pint/scripts/pintk.py).                                                *)
(*                                                                         *)
(* Numbers.  Lengths are integers in units of a quarter astronomical unit, *)
(* masses (GM/c^3) are integers in an arbitrary time unit, and a delay is  *)
(* counted in units of (ln 2) x (mass unit).  All position vectors used    *)
(* have an integer norm and |p| - p.d either 0 or a power of two, so that  *)
(* the square root and the logarithm of the code are computed exactly.     *)
(* IEEE results that are not finite (log(0) = -inf, 0 * inf = nan) are     *)
(* kept as such.                                                           *)
(***************************************************************************)
EXTENDS Integers, Sequences, FiniteSets, TLC

\* ------------------------------------------------------------------ bounds
\* Largest number of observations (TOAs) in a batch.
MaxToas == 3
\* Largest number of position columns a batch may lack.
MaxMissing == 1
\* Phases 0..MaxSeed of the ephemeris from which position columns are filled.
MaxSeed == 1
\* Masses 0..MaxT given to ss_obj_shapiro_delay when it is applied alone.
MaxT == 3
\* Factors 0..MaxScale by which a mass is rescaled.
MaxScale == 3
\* Longest parameter text read from a par file.
MaxTextLen == 2

\* const.au in the model's length unit.
AU == 4

VARIABLES
    \* --- SolarSystemShapiro and its inputs
    toas,            \* the observation batch (grouped TOA table)
    PLANET_SHAPIRO,  \* the parameter's value
    psb_xyz,         \* the pulsar direction the astrometry component provides
    ss_mass_sec,     \* SolarSystemShapiro._ss_mass_sec
    delay_funcs,     \* self.delay_funcs
    pc,              \* position in solar_system_shapiro_delay
    ii,              \* loop index over the groups (1-based)
    pl,              \* loop index over the planets (1-based)
    delay,           \* the local delay vector
    psr_dir,         \* the local psr_dir of the current group
    ret,             \* what the last completed call returned
    last_ret,        \* what the call before it returned
    dir_calls,       \* groups for which ssb_to_psb_xyz has been called
    added,           \* per observation, the bodies whose term was added
    \* --- ss_obj_shapiro_delay applied alone
    o_pos, o_dir, o_T, o_out, o_prev, o_scale,
    \* --- the PLANET_SHAPIRO parameter's text form
    p_in, p_out, p_before, p_status,
    \* --- the PINTk window
    win, psr, active, grid, cb_error, last_cmd

shapiro_vars == <<toas, PLANET_SHAPIRO, psb_xyz, ss_mass_sec, delay_funcs, pc, ii,
                  pl, delay, psr_dir, ret, last_ret, dir_calls, added>>
obj_vars == <<o_pos, o_dir, o_T, o_out, o_prev, o_scale>>
par_vars == <<p_in, p_out, p_before, p_status>>
gui_vars == <<win, psr, active, grid, cb_error, last_cmd>>
vars == <<shapiro_vars, obj_vars, par_vars, gui_vars>>

\* ------------------------------------------------- floating-point values
\* A float is finite (an integer count of units), +inf, -inf or nan.
Fin(n) == [k |-> "fin", v |-> n]
Inf(s) == [k |-> "inf", v |-> s]
NaN == [k |-> "nan", v |-> 0]
Zero == Fin(0)

Sign(n) == IF n > 0 THEN 1 ELSE IF n < 0 THEN -1 ELSE 0

\* c * a for a finite number c.
Mul(c, a) ==
    CASE a.k = "fin" -> Fin(c * a.v)
      [] a.k = "inf" -> IF c = 0 THEN NaN ELSE Inf(Sign(c) * a.v)
      [] OTHER -> NaN

\* a + b.
Add(a, b) ==
    CASE a.k = "nan" \/ b.k = "nan" -> NaN
      [] a.k = "inf" /\ b.k = "inf" -> IF a.v = b.v THEN a ELSE NaN
      [] a.k = "inf" -> a
      [] b.k = "inf" -> b
      [] OTHER -> Fin(a.v + b.v)

\* numpy.sqrt of a perfect square.
Sqrt(n) == CHOOSE s \in 0..n : s * s = n

RECURSIVE Log2(_)
\* The base-two logarithm of a power of two.
Log2(n) == IF n <= 1 THEN 0 ELSE 1 + Log2(n \div 2)

\* numpy.log(x / const.au), in units of ln 2; log(0) is -inf.
LogAU(x) == IF x = 0 THEN Inf(-1) ELSE Fin(Log2(x) - Log2(AU))

\* numpy.sum(a * b, axis=1) for one row.
Dot(a, b) == a[1] * b[1] + a[2] * b[2] + a[3] * b[3]

\* --------------------------------------------------- ss_obj_shapiro_delay
DelayRowWrongSign(p, d, T) == Mul(2 * T, LogAU(Sqrt(Dot(p, p)) - Dot(p, d)))

\* One row of ss_obj_shapiro_delay: r = |p|, rcostheta = p.d,
\* -2.0 * T_obj * log((r - rcostheta) / au).
DelayRow(p, d, T) == Mul((-2) * T, LogAU(Sqrt(Dot(p, p)) - Dot(p, d)))

\* ss_obj_shapiro_delay(obj_pos, psr_dir, T_obj) on N x 3 arrays.
ss_obj_shapiro_delay(obj_pos, dir, T_obj) ==
    [j \in 1..Len(obj_pos) |-> DelayRow(obj_pos[j], dir[j], T_obj)]

\* ------------------------------------------------------ observation batch
Observatories == {"Barycenter", "gbt", "ao"}

\* The solar-system bodies of _ss_mass_sec.
Bodies == <<"sun", "mercury", "venus", "earth", "mars",
            "jupiter", "saturn", "uranus", "neptune">>

BodySet == {Bodies[b] : b \in 1..Len(Bodies)}

BodyIdx(body) == CHOOSE b \in 1..Len(Bodies) : Bodies[b] = body

\* The name of a body's position column, 'obs_' + pl + '_pos'.
PosField(body) == "obs_" \o body \o "_pos"

\* Masses in seconds (GM/c^3), here integers that keep the bodies' order
\* by mass and make every sum of distinct masses different.
MassTable ==
    [body \in BodySet |->
        CASE body = "sun" -> 256
          [] body = "jupiter" -> 128
          [] body = "saturn" -> 64
          [] body = "neptune" -> 32
          [] body = "uranus" -> 16
          [] body = "earth" -> 8
          [] body = "venus" -> 4
          [] body = "mars" -> 2
          [] OTHER -> 1]

\* Directions to the pulsar (unit vectors).
Dirs == {<<1, 0, 0>>, <<0, 1, 0>>}

\* Positions of a body seen from the observatory.  For each of them and each
\* direction of Dirs, |p| - p.d is 0 (the body on the line of sight) or a
\* power of two.
PosSeq == << <<0, 0, 4>>, <<-4, 0, 0>>, <<3, 4, 0>>,
             <<4, 0, 0>>, <<0, -8, 0>>, <<0, 0, 1>> >>

\* The position column of a body for n observations, read off the ephemeris
\* at phase seed.
EphemColumn(body, seed, n) ==
    [row \in 1..n |-> PosSeq[((seed + BodyIdx(body) + row) % Len(PosSeq)) + 1]]

RECURSIVE SumSeq(_)
SumSeq(s) == IF s = <<>> THEN 0 ELSE s[1] + SumSeq(Tail(s))

\* Group offsets 0 = i_1 <= ... <= i_{n+1} = len of the groups' sizes.
Offsets(sizes) == [g \in 1..(Len(sizes) + 1) |-> SumSeq(SubSeq(sizes, 1, g - 1))]

\* Group keys: every observatory names at most one group.
KeySeqs ==
    {k \in UNION {[1..n -> Observatories] : n \in 0..Cardinality(Observatories)} :
        \A a, b \in DOMAIN k : k[a] = k[b] => a = b}

SizeSeqs(n) == {s \in [1..n -> 1..MaxToas] : SumSeq(s) <= MaxToas}

\* Sets of bodies whose position column the batch holds.
PresentSets ==
    {BodySet \ m : m \in {x \in SUBSET BodySet : Cardinality(x) <= MaxMissing}}

\* A grouped TOA table: the group keys (toas.groups.keys), the group
\* offsets (toas.groups.indices) and the columns, tdbld and obs_<body>_pos.
Batch(keys, sizes, present, seed) ==
    [keys |-> keys,
     indices |-> Offsets(sizes),
     tdbld |-> [row \in 1..SumSeq(sizes) |-> row],
     cols |-> [f \in {PosField(b) : b \in present} |->
                 EphemColumn(CHOOSE b \in present : PosField(b) = f,
                             seed, SumSeq(sizes))]]

Batches ==
    UNION {{Batch(k, s, p, e) : s \in SizeSeqs(Len(k)), p \in PresentSets,
                                e \in 0..MaxSeed} : k \in KeySeqs}

\* len(toas)
NToas(t) == Len(t.tdbld)

NGroups(t) == Len(t.keys)

\* loind, hiind = toas.groups.indices[ii:ii+2]
loind(t, g) == t.indices[g]
hiind(t, g) == t.indices[g + 1]

\* grp[name] for grp = toas.groups[g]: the rows of the group, or a KeyError.
FieldZeroFilled(t, g, name) ==
    [ok |-> TRUE,
     col |-> IF name \in DOMAIN t.cols
             THEN SubSeq(t.cols[name], loind(t, g) + 1, hiind(t, g))
             ELSE [j \in 1..(hiind(t, g) - loind(t, g)) |-> <<0, 0, AU>>]]

Field(t, g, name) ==
    IF name \in DOMAIN t.cols
    THEN [ok |-> TRUE, col |-> SubSeq(t.cols[name], loind(t, g) + 1, hiind(t, g))]
    ELSE [ok |-> FALSE, col |-> <<>>]

\* The astrometry component's ssb_to_psb_xyz(epoch): one unit vector per epoch.
ssb_to_psb_xyz(epoch) == [j \in 1..Len(epoch) |-> psb_xyz]

\* ---------------------------------------------- solar_system_shapiro_delay
NoRet == [set |-> FALSE, val |-> <<>>]
Returned(v) == [set |-> TRUE, val |-> v]

\* The planets of the planetary term.
planets_with_mercury == <<"jupiter", "saturn", "venus", "uranus", "mercury">>

planets == <<"jupiter", "saturn", "venus", "uranus">>

never_barycenter(obs) == FALSE

\* key['obs'] == 'Barycenter'
is_barycenter(obs) == obs = "Barycenter"

stale_delay(n) == IF Len(delay) = n THEN delay ELSE [i \in 1..n |-> Zero]

\* numpy.zeros(len(toas))
zeros(n) == [i \in 1..n |-> Zero]

slice_assign(d, lo, hi, term) ==
    [i \in 1..Len(d) |-> IF lo < i /\ i <= hi THEN term[i - lo] ELSE d[i]]

\* delay[loind:hiind] += term
slice_add(d, lo, hi, term) ==
    [i \in 1..Len(d) |-> IF lo < i /\ i <= hi THEN Add(d[i], term[i - lo]) ELSE d[i]]

\* The bookkeeping of which body's term each observation has received.
NoteAdded(a, lo, hi, body) ==
    [i \in 1..Len(a) |-> IF lo < i /\ i <= hi THEN Append(a[i], body) ELSE a[i]]

inputs == <<toas, PLANET_SHAPIRO, psb_xyz, ss_mass_sec, delay_funcs>>

\* A call of solar_system_shapiro_delay(toas): delay = numpy.zeros(len(toas)).
Call ==
    /\ pc \in {"idle", "done", "error"}
    /\ delay' = zeros(NToas(toas))
    /\ added' = [i \in 1..NToas(toas) |-> <<>>]
    /\ ii' = 1
    /\ pl' = 1
    /\ psr_dir' = <<>>
    /\ dir_calls' = {}
    /\ last_ret' = IF pc = "done" THEN ret ELSE last_ret
    /\ ret' = NoRet
    /\ pc' = "loop"
    /\ UNCHANGED <<inputs, obj_vars, par_vars, gui_vars>>

\* A barycentric group: log.info(...); continue.
SkipBarycenter ==
    /\ pc = "loop"
    /\ ii <= NGroups(toas)
    /\ is_barycenter(toas.keys[ii])
    /\ ii' = ii + 1
    /\ UNCHANGED <<inputs, pc, pl, delay, psr_dir, ret, last_ret, dir_calls, added,
                   obj_vars, par_vars, gui_vars>>

\* psr_dir = self.ssb_to_psb_xyz(epoch=grp['tdbld'])
GetPsrDir ==
    /\ pc = "loop"
    /\ ii <= NGroups(toas)
    /\ ~is_barycenter(toas.keys[ii])
    /\ psr_dir' = ssb_to_psb_xyz(SubSeq(toas.tdbld, loind(toas, ii) + 1,
                                        hiind(toas, ii)))
    /\ dir_calls' = dir_calls \cup {ii}
    /\ pc' = "sun"
    /\ UNCHANGED <<inputs, ii, pl, delay, ret, last_ret, added,
                   obj_vars, par_vars, gui_vars>>

\* delay[loind:hiind] += ss_obj_shapiro_delay(grp['obs_sun_pos'], psr_dir,
\* _ss_mass_sec['sun']); then the planets if PLANET_SHAPIRO, else the next group.
AddSun ==
    /\ pc = "sun"
    /\ LET f == Field(toas, ii, PosField("sun"))
       IN  IF f.ok
           THEN /\ delay' = slice_add(delay, loind(toas, ii), hiind(toas, ii),
                               ss_obj_shapiro_delay(f.col, psr_dir, ss_mass_sec["sun"]))
                /\ added' = NoteAdded(added, loind(toas, ii), hiind(toas, ii), "sun")
                /\ IF PLANET_SHAPIRO
                   THEN pc' = "planets" /\ pl' = 1 /\ ii' = ii
                   ELSE pc' = "loop" /\ pl' = pl /\ ii' = ii + 1
           ELSE /\ pc' = "error"
                /\ UNCHANGED <<delay, added, pl, ii>>
    /\ UNCHANGED <<inputs, psr_dir, ret, last_ret, dir_calls,
                   obj_vars, par_vars, gui_vars>>

\* One round of the loop over the planets:
\* delay[loind:hiind] += ss_obj_shapiro_delay(grp['obs_'+pl+'_pos'], psr_dir,
\* _ss_mass_sec[pl]); after the last planet, the next group.
AddPlanet ==
    /\ pc = "planets"
    /\ LET f == Field(toas, ii, PosField(planets[pl]))
       IN  IF f.ok
           THEN /\ delay' = slice_add(delay, loind(toas, ii), hiind(toas, ii),
                               ss_obj_shapiro_delay(f.col, psr_dir,
                                                    ss_mass_sec[planets[pl]]))
                /\ added' = NoteAdded(added, loind(toas, ii), hiind(toas, ii),
                                      planets[pl])
                /\ IF pl < Len(planets)
                   THEN pc' = "planets" /\ pl' = pl + 1 /\ ii' = ii
                   ELSE pc' = "loop" /\ pl' = 1 /\ ii' = ii + 1
           ELSE /\ pc' = "error"
                /\ UNCHANGED <<delay, added, pl, ii>>
    /\ UNCHANGED <<inputs, psr_dir, ret, last_ret, dir_calls,
                   obj_vars, par_vars, gui_vars>>

\* return delay
Return ==
    /\ pc = "loop"
    /\ ii > NGroups(toas)
    /\ ret' = Returned(delay)
    /\ pc' = "done"
    /\ UNCHANGED <<inputs, ii, pl, delay, psr_dir, last_ret, dir_calls, added,
                   obj_vars, par_vars, gui_vars>>

\* The state of each part of the program before it is used.
ObjIdle ==
    /\ o_pos = <<>> /\ o_dir = <<>> /\ o_T = 0
    /\ o_out = NoRet /\ o_prev = NoRet /\ o_scale = 1
ParIdle ==
    /\ p_in = <<>> /\ p_out = <<>> /\ p_before = TRUE /\ p_status = "new"
GuiIdle ==
    /\ win = "none" /\ psr = [set |-> FALSE, parfile |-> "", timfile |-> ""]
    /\ active = [key \in {"plk", "par", "tim"} |-> 0]
    /\ grid = [key \in {"plk", "par", "tim"} |-> <<>>]
    /\ cb_error = "none" /\ last_cmd = [cmd |-> "none", key |-> ""]
ShapiroIdle ==
    /\ toas = Batch(<<>>, <<>>, BodySet, 0)
    /\ psb_xyz = <<1, 0, 0>>
    /\ ss_mass_sec = MassTable
    /\ delay_funcs = <<"solar_system_shapiro_delay">>
    /\ pc = "idle" /\ ii = 1 /\ pl = 1 /\ delay = <<>> /\ psr_dir = <<>>
    /\ ret = NoRet /\ last_ret = NoRet /\ dir_calls = {} /\ added = <<>>

\* A SolarSystemShapiro component (PLANET_SHAPIRO defaults to True and may
\* have been set from a par file) that is given a batch.
Init ==
    /\ toas \in Batches
    /\ PLANET_SHAPIRO \in BOOLEAN
    /\ psb_xyz \in Dirs
    /\ ss_mass_sec = MassTable
    /\ delay_funcs = <<"solar_system_shapiro_delay">>
    /\ pc = "idle" /\ ii = 1 /\ pl = 1 /\ delay = <<>> /\ psr_dir = <<>>
    /\ ret = NoRet /\ last_ret = NoRet /\ dir_calls = {} /\ added = <<>>
    /\ ObjIdle /\ ParIdle /\ GuiIdle

Next == Call \/ SkipBarycenter \/ GetPsrDir \/ AddSun \/ AddPlanet \/ Return

Spec == Init /\ [][Next]_vars

\* ------------------------------------------------- properties of the delay
\* The observations (1-based) of group g.
Rows(t, g) == (t.indices[g] + 1)..t.indices[g + 1]

\* The term of one body for observation i, from the batch's own columns.
Term(body, i) == DelayRow(toas.cols[PosField(body)][i], psb_xyz, MassTable[body])

RECURSIVE SumTerms(_, _)
SumTerms(bodies, i) ==
    IF bodies = <<>> THEN Zero
    ELSE Add(SumTerms(SubSeq(bodies, 1, Len(bodies) - 1), i),
             Term(bodies[Len(bodies)], i))

NonBary(t) == {g \in 1..NGroups(t) : t.keys[g] # "Barycenter"}

Running == pc \in {"loop", "sun", "planets"}

\* C1: a returned vector holds, for each observation of a non-barycentric
\* group, the Sun term alone when PLANET_SHAPIRO is false and the Sun term
\* plus the Jupiter, Saturn, Venus and Uranus terms when it is true; the
\* Mercury, Earth, Mars and Neptune columns (present or not) play no part.
C1_Toggle ==
    pc = "done" =>
        \A g \in NonBary(toas) : \A i \in Rows(toas, g) :
            ret.val[i] =
                IF PLANET_SHAPIRO
                THEN Add(Add(Add(Add(Term("sun", i), Term("jupiter", i)),
                                 Term("saturn", i)), Term("venus", i)),
                         Term("uranus", i))
                ELSE Term("sun", i)

C1_Witness ==
    /\ pc = "done" /\ PLANET_SHAPIRO
    /\ PosField("mercury") \notin DOMAIN toas.cols
    /\ \E g \in NonBary(toas) : \E i \in Rows(toas, g) :
           ret.val[i].k = "fin" /\ ret.val[i].v # 0

\* C2: a group whose observatory is 'Barycenter' has zero delay on all its
\* observations, during the call and in the returned vector, and
\* ssb_to_psb_xyz is not called for it.
C2_BarycentricSkip ==
    \A g \in 1..NGroups(toas) :
        toas.keys[g] = "Barycenter" =>
            /\ g \notin dir_calls
            /\ (Running \/ pc = "done") => \A i \in Rows(toas, g) : delay[i] = Zero
            /\ pc = "done" => \A i \in Rows(toas, g) : ret.val[i] = Zero

C2_Witness ==
    /\ pc = "done"
    /\ \E g \in 1..NGroups(toas) : toas.keys[g] = "Barycenter" /\ g > 1
    /\ \E i \in 1..NToas(toas) : ret.val[i] # Zero

NoDup(s) == \A a, b \in 1..Len(s) : s[a] = s[b] => a = b

\* The bodies whose term the observations of group g are due.
Due(g) ==
    IF toas.keys[g] = "Barycenter" THEN {}
    ELSE IF PLANET_SHAPIRO THEN {"sun", "jupiter", "saturn", "venus", "uranus"}
    ELSE {"sun"}

\* C3: during and after a call the delay vector has one entry per
\* observation, each entry is the sum of the terms added to it so far
\* (zero when none was), no body is added twice, and at the return every
\* observation has received exactly the terms of its own group.
C3_Additive ==
    (Running \/ pc \in {"done", "error"}) =>
        /\ Len(delay) = NToas(toas)
        /\ \A i \in 1..NToas(toas) :
               /\ delay[i] = SumTerms(added[i], i)
               /\ NoDup(added[i])
        /\ pc = "done" =>
               \A g \in 1..NGroups(toas) : \A i \in Rows(toas, g) :
                   {added[i][n] : n \in 1..Len(added[i])} = Due(g)

C3_Witness ==
    /\ pc = "done" /\ NGroups(toas) >= 2
    /\ \E i \in 1..NToas(toas) :
           Len(added[i]) = 5 /\ delay[i].k = "fin" /\ delay[i].v # 0

RequiredMissing ==
    \E p \in {"jupiter", "saturn", "venus", "uranus"} :
        PosField(p) \notin DOMAIN toas.cols

\* C4: with PLANET_SHAPIRO true, a non-barycentric group and a required
\* planet column missing, a call never gets past the first such group and
\* never returns a vector; a call that ended in an error returned nothing.
C4_MissingPlanet ==
    /\ (PLANET_SHAPIRO /\ RequiredMissing /\ NonBary(toas) # {}) =>
           /\ pc # "done"
           /\ ret = NoRet
           /\ Running =>
                  ii <= CHOOSE g \in NonBary(toas) : \A h \in NonBary(toas) : g <= h
    /\ pc = "error" => ret = NoRet

C4_Witness ==
    /\ pc = "error" /\ PLANET_SHAPIRO /\ ret = NoRet
    /\ PosField("uranus") \notin DOMAIN toas.cols
    /\ \E i \in 1..NToas(toas) : delay[i].k = "fin" /\ delay[i].v # 0

\* C8: a call changes neither the batch, nor PLANET_SHAPIRO, nor the
\* direction provider, nor the mass table, nor delay_funcs, and a call that
\* returns after an earlier one returned gives the same vector.
C8_Idempotent ==
    /\ [][UNCHANGED inputs]_vars
    /\ [](pc = "done" /\ last_ret.set => ret = last_ret)

C8_Witness ==
    /\ pc = "done" /\ last_ret.set /\ ret = last_ret
    /\ \E i \in 1..NToas(toas) : ret.val[i].k = "fin" /\ ret.val[i].v # 0

\* ------------------------------------------- ss_obj_shapiro_delay alone
PosSet == {PosSeq[n] : n \in 1..Len(PosSeq)}

\* The arguments of a call: obj_pos and psr_dir with one or two rows, and T_obj.
InitObj ==
    /\ \E n \in 1..2 : o_pos \in [1..n -> PosSet] /\ o_dir \in [1..n -> Dirs]
    /\ o_T \in 0..MaxT
    /\ o_out = NoRet /\ o_prev = NoRet /\ o_scale = 1
    /\ ShapiroIdle /\ PLANET_SHAPIRO = TRUE /\ ParIdle /\ GuiIdle

\* out = ss_obj_shapiro_delay(obj_pos, psr_dir, T_obj)
Eval ==
    /\ ~o_out.set
    /\ o_out' = Returned(ss_obj_shapiro_delay(o_pos, o_dir, o_T))
    /\ UNCHANGED <<o_pos, o_dir, o_T, o_prev, o_scale,
                   shapiro_vars, par_vars, gui_vars>>

\* The same geometry is evaluated again with the mass multiplied by k.
Rescale ==
    /\ o_out.set /\ ~o_prev.set
    /\ \E k \in 0..MaxScale :
           /\ o_scale' = k
           /\ o_T' = k * o_T
    /\ o_prev' = o_out
    /\ o_out' = NoRet
    /\ UNCHANGED <<o_pos, o_dir, shapiro_vars, par_vars, gui_vars>>

NextObj == Eval \/ Rescale

SpecObj == InitObj /\ [][NextObj]_vars

RECURSIVE Pow2(_)
Pow2(k) == IF k = 0 THEN 1 ELSE 2 * Pow2(k - 1)

\* |p| - p.d for row j of the arguments.
Arg(j) ==
    (CHOOSE n \in 0..16 : n * n = Dot(o_pos[j], o_pos[j])) - Dot(o_pos[j], o_dir[j])

\* C5: with |p| - p.d = AU * 2^k > 0 the result is -2 * T * k (in units of
\* ln 2): zero for T = 0, negative for T > 0 beyond one AU, positive for
\* T > 0 within one AU, and multiplied by c when T is.
C5_Formula ==
    o_out.set =>
        /\ Len(o_out.val) = Len(o_pos)
        /\ \A j \in 1..Len(o_pos) :
               Arg(j) > 0 =>
                   /\ o_out.val[j].k = "fin"
                   /\ \E k \in 0..4 :
                          \/ Arg(j) = AU * Pow2(k) /\ o_out.val[j].v = (-2) * o_T * k
                          \/ Arg(j) * Pow2(k) = AU /\ o_out.val[j].v = 2 * o_T * k
                   /\ o_T = 0 => o_out.val[j] = Zero
                   /\ (o_T > 0 /\ Arg(j) > AU) => o_out.val[j].v < 0
                   /\ (o_T > 0 /\ Arg(j) < AU) => o_out.val[j].v > 0
                   /\ o_prev.set => o_out.val[j].v = o_scale * o_prev.val[j].v

C5_Witness ==
    /\ o_out.set /\ o_prev.set /\ o_scale = 3 /\ Len(o_pos) = 2
    /\ Arg(1) > AU /\ o_out.val[1].v < 0
    /\ Arg(2) < AU /\ Arg(2) > 0 /\ o_out.val[2].v > 0

\* ------------------------------------------ the PLANET_SHAPIRO parameter
\* A text is a sequence of characters.
Chars == {"Y", "N", "y", "n", "1", "X"}

Texts == UNION {[1..n -> Chars] : n \in 0..MaxTextLen}

\* str.upper(), character by character.
upper(x) ==
    [j \in 1..Len(x) |-> CASE x[j] = "y" -> "Y" [] x[j] = "n" -> "N" [] OTHER -> x[j]]

\* parse_value=lambda x: x.upper() == 'Y'
parse_value(x) == upper(x) = <<"Y">>

print_value_digit(x) == IF x THEN <<"1">> ELSE <<"0">>

\* print_value=lambda x: 'Y' if x else 'N'
print_value(x) == IF x THEN <<"Y">> ELSE <<"N">>

\* A new component: Parameter(name="PLANET_SHAPIRO", value=True, ...).
InitPar ==
    /\ PLANET_SHAPIRO = TRUE
    /\ ParIdle /\ ShapiroIdle /\ ObjIdle /\ GuiIdle

\* The value is set from the text t of a par file: value = parse_value(t).
ReadPar ==
    /\ \E t \in Texts :
           /\ p_in' = t
           /\ PLANET_SHAPIRO' = parse_value(t)
    /\ p_status' = "loaded"
    /\ UNCHANGED <<p_out, p_before, toas, psb_xyz, ss_mass_sec, delay_funcs, pc, ii,
                   pl, delay, psr_dir, ret, last_ret, dir_calls, added,
                   obj_vars, gui_vars>>

\* The value is written out: text = print_value(value).
WritePar ==
    /\ p_out' = print_value(PLANET_SHAPIRO)
    /\ p_before' = PLANET_SHAPIRO
    /\ p_status' = "printed"
    /\ UNCHANGED <<p_in, shapiro_vars, obj_vars, gui_vars>>

\* The text written out is read back: value = parse_value(text).
Reload ==
    /\ p_status = "printed"
    /\ p_in' = p_out
    /\ PLANET_SHAPIRO' = parse_value(p_out)
    /\ p_status' = "reloaded"
    /\ UNCHANGED <<p_out, p_before, toas, psb_xyz, ss_mass_sec, delay_funcs, pc, ii,
                   pl, delay, psr_dir, ret, last_ret, dir_calls, added,
                   obj_vars, gui_vars>>

NextPar == ReadPar \/ WritePar \/ Reload

SpecPar == InitPar /\ [][NextPar]_vars

\* C6: a value is loaded only from the texts "Y" (true) and "N" (false);
\* any other text is refused and yields no boolean.
C6_MalformedRejected ==
    p_status = "loaded" =>
        \/ p_in = <<"Y">> /\ PLANET_SHAPIRO
        \/ p_in = <<"N">> /\ ~PLANET_SHAPIRO

\* C7: reading back the text printed for a value gives that value, and the
\* printed text is "Y" or "N".
C7_RoundTrip ==
    /\ p_status \in {"printed", "reloaded"} => p_out \in {<<"Y">>, <<"N">>}
    /\ p_status = "printed" => (p_out = <<"Y">>) = p_before
    /\ p_status = "reloaded" => PLANET_SHAPIRO = p_before

C7_Witness ==
    /\ p_status = "reloaded" /\ ~p_before /\ ~PLANET_SHAPIRO /\ p_out = <<"N">>

\* ------------------------------------------------------ the PINTk window
\* self.maxcols = 2
maxcols == 2

\* The keys of self.widgets and self.active, in insertion order.
KeyOrder == <<"plk", "par", "tim">>
Keys == {"plk", "par", "tim"}

\* File names a dialog or the command line may give; "" is a cancelled dialog.
ParFiles == {"a.par", "b.par"}
TimFiles == {"a.tim", "b.tim"}

NoPulsar == [set |-> FALSE, parfile |-> "", timfile |-> ""]
Cmd(c, k) == [cmd |-> c, key |-> k]

\* for widget in self.mainFrame.winfo_children(): widget.grid_forget()
grid_forget_all(g) == [key \in Keys |-> <<>>]

RECURSIVE place(_, _, _, _)
\* The loop of updateLayout from the n-th key on, visible widgets so far.
place(g, act, n, visible) ==
    IF n > Len(KeyOrder) THEN g
    ELSE IF act[KeyOrder[n]] # 0
         THEN place([g EXCEPT ![KeyOrder[n]] = <<visible \div maxcols, visible % maxcols>>],
                    act, n + 1, visible + 1)
         ELSE place(g, act, n + 1, visible)

updateLayout_no_forget(g, act) == place(g, act, 1, 0)

\* updateLayout(): forget every widget, then grid the active ones.
updateLayout(g, act) == place(grid_forget_all(g), act, 1, 0)

\* Before PINTk(...) is called.
InitGui ==
    /\ GuiIdle
    /\ PLANET_SHAPIRO = TRUE /\ ShapiroIdle /\ ObjIdle /\ ParIdle

\* PINTk.__init__(master, parfile, timfile): createWidgets, openPulsar when
\* both files are given (Pulsar(...) may raise on a file it cannot read),
\* initUI, updateLayout.
Construct ==
    /\ win = "none"
    /\ \E parfile \in ParFiles \cup {"None"}, timfile \in TimFiles \cup {"None"},
          loads \in BOOLEAN :
           LET act == [key \in Keys |-> IF key = "plk" THEN 1 ELSE 0]
           IN  /\ active' = act
               /\ IF parfile # "None" /\ timfile # "None"
                  THEN IF loads
                       THEN /\ psr' = [set |-> TRUE, parfile |-> parfile,
                                       timfile |-> timfile]
                            /\ win' = "open"
                            /\ grid' = updateLayout(grid, act)
                       ELSE /\ win' = "failed"
                            /\ UNCHANGED <<psr, grid>>
                  ELSE /\ win' = "open"
                       /\ grid' = updateLayout(grid, act)
                       /\ UNCHANGED psr
    /\ cb_error' = "none"
    /\ last_cmd' = Cmd("construct", "")
    /\ UNCHANGED <<shapiro_vars, obj_vars, par_vars>>

\* toggle(key), bound to Control-p, Control-m and Control-t.
toggle ==
    /\ win = "open"
    /\ \E key \in Keys :
           /\ active' = [active EXCEPT ![key] = (active[key] + 1) % 2]
           /\ grid' = updateLayout(grid, active')
           /\ last_cmd' = Cmd("toggle", key)
    /\ cb_error' = "none"
    /\ UNCHANGED <<win, psr, shapiro_vars, obj_vars, par_vars>>

\* A checkbutton of the View menu: Tk flips the variable, then updateLayout.
ViewCheck ==
    /\ win = "open"
    /\ \E key \in Keys :
           /\ active' = [active EXCEPT ![key] = 1 - active[key]]
           /\ grid' = updateLayout(grid, active')
           /\ last_cmd' = Cmd("view", key)
    /\ cb_error' = "none"
    /\ UNCHANGED <<win, psr, shapiro_vars, obj_vars, par_vars>>

\* 'Open par/tim': openParTim asks for two files and calls openPulsar, which
\* sets self.psr = Pulsar(...) unless Pulsar(...) raises.
openParTim ==
    /\ win = "open"
    /\ \E parfile \in ParFiles \cup {""}, timfile \in TimFiles \cup {""},
          loads \in BOOLEAN :
           IF loads /\ parfile # "" /\ timfile # ""
           THEN /\ psr' = [set |-> TRUE, parfile |-> parfile, timfile |-> timfile]
                /\ cb_error' = "none"
           ELSE /\ cb_error' = "PulsarError"
                /\ UNCHANGED psr
    /\ last_cmd' = Cmd("openParTim", "")
    /\ UNCHANGED <<win, active, grid, shapiro_vars, obj_vars, par_vars>>

\* 'Switch model': self.psr.parfile = parfile; self.psr.reset_model(); ...
\* Reading self.psr before openPulsar has set it raises AttributeError.
switchModel ==
    /\ win = "open"
    /\ \E parfile \in ParFiles \cup {""}, resets \in BOOLEAN :
           IF psr.set
           THEN /\ psr' = [psr EXCEPT !.parfile = parfile]
                /\ cb_error' = IF resets /\ parfile # "" THEN "none" ELSE "PulsarError"
           ELSE /\ cb_error' = "AttributeError"
                /\ UNCHANGED psr
    /\ last_cmd' = Cmd("switchModel", "")
    /\ UNCHANGED <<win, active, grid, shapiro_vars, obj_vars, par_vars>>

\* 'Switch TOAs': self.psr.timfile = timfile; self.psr.reset_TOAs(); ...
switchTOAs ==
    /\ win = "open"
    /\ \E timfile \in TimFiles \cup {""}, resets \in BOOLEAN :
           IF psr.set
           THEN /\ psr' = [psr EXCEPT !.timfile = timfile]
                /\ cb_error' = IF resets /\ timfile # "" THEN "none" ELSE "PulsarError"
           ELSE /\ cb_error' = "AttributeError"
                /\ UNCHANGED psr
    /\ last_cmd' = Cmd("switchTOAs", "")
    /\ UNCHANGED <<win, active, grid, shapiro_vars, obj_vars, par_vars>>

\* 'Exit': top.destroy
Exit ==
    /\ win = "open"
    /\ win' = "destroyed"
    /\ last_cmd' = Cmd("exit", "")
    /\ UNCHANGED <<psr, active, grid, cb_error, shapiro_vars, obj_vars, par_vars>>

NextGui ==
    Construct \/ toggle \/ ViewCheck \/ openParTim \/ switchModel \/ switchTOAs \/ Exit

SpecGui == InitGui /\ [][NextGui]_vars

\* C9: 'Switch model' and 'Switch TOAs' have run only with a Pulsar loaded:
\* neither has read self.psr before openPulsar set it.
C9_SwitchNeedsPulsar ==
    last_cmd.cmd \in {"switchModel", "switchTOAs"} =>
        psr.set /\ cb_error # "AttributeError"

\* The number of visible widgets before key in the order plk, par, tim.
Rank(key) ==
    Cardinality({n \in 1..Len(KeyOrder) :
                    /\ active[KeyOrder[n]] = 1
                    /\ n < (CHOOSE m \in 1..Len(KeyOrder) : KeyOrder[m] = key)})

LayoutOK ==
    /\ \A key \in Keys :
           /\ active[key] \in {0, 1}
           /\ active[key] = 0 => grid[key] = <<>>
           /\ active[key] = 1 => grid[key] = <<Rank(key) \div 2, Rank(key) % 2>>
    /\ \A a, b \in Keys : (a # b /\ grid[a] # <<>>) => grid[a] # grid[b]

\* C10: in an open window the grid shows exactly the widgets whose flag is 1,
\* in the order plk, par, tim, the k-th at row k div 2 and column k mod 2;
\* after construction only plk is shown; a toggle(key) flips the flag of key
\* and no other.
C10_Layout ==
    /\ [](win = "open" =>
            /\ LayoutOK
            /\ last_cmd.cmd = "construct" =>
                   /\ active = [key \in Keys |-> IF key = "plk" THEN 1 ELSE 0]
                   /\ grid = [key \in Keys |-> IF key = "plk" THEN <<0, 0>> ELSE <<>>])
    /\ [][last_cmd'.cmd = "toggle" =>
            \A key \in Keys :
                active'[key] = IF key = last_cmd'.key THEN 1 - active[key]
                               ELSE active[key]]_vars

C10_Witness ==
    /\ win = "open" /\ last_cmd = Cmd("toggle", "plk")
    /\ active = [key \in Keys |-> IF key = "plk" THEN 0 ELSE 1]
    /\ grid["par"] = <<0, 0>> /\ grid["tim"] = <<0, 1>> /\ grid["plk"] = <<>>
====
